---- MODULE Spec2Model ----
(***************************************************************************)
(* WiFi signal logger (src/wifiapp.py): the nmcli output parser, the       *)
(* RSSI-to-distance estimator, the SQLite log table and the five HTTP      *)
(* routes (view, scan, export, logs, debug).                               *)
(*                                                                         *)
(* Text is a sequence of one-character strings.  A distance is kept in     *)
(* hundredths of a foot (the code rounds to two decimals).  A timestamp is *)
(* the pair <<minute, second>> of the fixed-width strftime text, compared  *)
(* field by field as SQLite compares the TEXT column.                      *)
(***************************************************************************)
EXTENDS Integers, Sequences, FiniteSets, TLC

VARIABLES
    store,          \* table wifi_signal: rows in rowid (insertion) order
    seq,            \* sqlite_sequence: the largest id AUTOINCREMENT has given out
    clock,          \* the wall clock read by datetime.now(), in seconds
    pc,             \* per scan request: "idle", "loop", "insert", "done"
    wifi_signals,   \* per scan request: the list get_wifi_signal returned
    idx,            \* per scan request: position of the for loop
    pending,        \* per scan request: arguments of the INSERT being executed
    response,       \* per scan request: the JSON status sent back
    inserted,       \* per scan request: rows its log_to_database calls committed
    committed,      \* every row for which log_to_database has returned
    lastOp,         \* the request step that ran last
    filterArg,      \* the ssid query parameter of the last view/logs request
    result,         \* the body of the last view/logs/debug response
    source,         \* the list get_wifi_signal returned to the last debug request
    csv,            \* rows of wifi_signal_logs.csv
    nmcli,          \* outcome of subprocess.check_output (parser check)
    parsed,         \* what get_wifi_signal returned for it
    rssiArg,        \* argument of calculate_distance (estimator check)
    estimated       \* what calculate_distance returned for it

vars == <<store, seq, clock, pc, wifi_signals, idx, pending, response, inserted,
          committed, lastOp, filterArg, result, source, csv,
          nmcli, parsed, rssiArg, estimated>>

pureVars == <<nmcli, parsed, rssiArg, estimated>>

appVars == <<store, seq, clock, pc, wifi_signals, idx, pending, response,
             inserted, committed, lastOp, filterArg, result, source, csv>>

-----------------------------------------------------------------------------
(* Bounds of the model *)

MaxLines == 2       \* lines in one nmcli output
MaxStore == 3       \* rows the table may hold before new scans are refused
MaxTicks == 1       \* seconds that pass on the wall clock
MaxRssi == 120      \* estimator inputs checked: -MaxRssi .. MaxRssi

(* Program constants *)

REFERENCE_RSSI == -50
PATH_LOSS_EXPONENT == 2
WeakThreshold == -80
NormalizeOffset == 100

Requests == {1, 2}  \* scan requests that may be served at the same time

\* the wall clock runs up to the turn of a minute
LastSecond == 60
FirstSecond == LastSecond - MaxTicks

-----------------------------------------------------------------------------
(* Text helpers: str.strip, str.split, int *)

NL == "\n"
Digits == {"0", "1", "2", "3", "4", "5", "6", "7", "8", "9"}

DigitVal(c) ==
    CASE c = "0" -> 0 [] c = "1" -> 1 [] c = "2" -> 2 [] c = "3" -> 3
      [] c = "4" -> 4 [] c = "5" -> 5 [] c = "6" -> 6 [] c = "7" -> 7
      [] c = "8" -> 8 [] c = "9" -> 9

Tail1(s) == SubSeq(s, 2, Len(s))
Front(s) == SubSeq(s, 1, Len(s) - 1)

RECURSIVE LStrip(_)
LStrip(s) == IF s # <<>> /\ s[1] = NL THEN LStrip(Tail1(s)) ELSE s

RECURSIVE RStrip(_)
RStrip(s) == IF s # <<>> /\ s[Len(s)] = NL THEN RStrip(Front(s)) ELSE s

\* str.strip(): leading and trailing whitespace removed (the only
\* whitespace in the modelled alphabet is the newline)
Strip(s) == RStrip(LStrip(s))

\* str.split(sep): always at least one piece; an empty text gives <<"">>
RECURSIVE Split(_, _)
Split(s, sep) ==
    IF \A i \in 1..Len(s) : s[i] # sep
    THEN <<s>>
    ELSE LET i == CHOOSE k \in 1..Len(s) :
                     s[k] = sep /\ \A j \in 1..(k - 1) : s[j] # sep
         IN  <<SubSeq(s, 1, i - 1)>> \o Split(SubSeq(s, i + 1, Len(s)), sep)

\* int(text) succeeds on an optional sign followed by at least one digit
IsIntLiteral(s) ==
    LET body == IF s # <<>> /\ s[1] \in {"-", "+"} THEN Tail1(s) ELSE s
    IN  body # <<>> /\ \A i \in 1..Len(body) : body[i] \in Digits

RECURSIVE DecVal(_)
DecVal(s) == IF s = <<>> THEN 0 ELSE 10 * DecVal(Front(s)) + DigitVal(s[Len(s)])

ParseInt(s) ==
    IF s[1] = "-" THEN 0 - DecVal(Tail1(s))
    ELSE IF s[1] = "+" THEN DecVal(Tail1(s))
    ELSE DecVal(s)

-----------------------------------------------------------------------------
(* get_wifi_signal *)

\* ssid, signal = line.split(":") unpacks only a list of exactly two
\* pieces, and int(signal) accepts only an integer literal; either
\* failure raises ValueError
LineParses(line) ==
    LET f == Split(line, ":") IN Len(f) = 2 /\ IsIntLiteral(f[2])

LinePair(line) ==
    LET f == Split(line, ":") IN <<f[1], ParseInt(f[2])>>

\* faulty variant: the except clause returns what was parsed before the bad line
RECURSIVE ParsedPrefix(_)
ParsedPrefix(lines) ==
    IF lines = <<>> \/ ~LineParses(lines[1])
    THEN <<>>
    ELSE <<LinePair(lines[1])>> \o ParsedPrefix(Tail1(lines))

get_wifi_signal_partial(out) ==
    IF ~out.ok THEN <<>> ELSE ParsedPrefix(Split(Strip(out.text), NL))

\* Any exception (check_output failing, a line that does not parse)
\* reaches the except clause, which discards wifi_info and returns [].
get_wifi_signal(out) ==
    IF ~out.ok
    THEN <<>>
    ELSE LET lines == Split(Strip(out.text), NL)
         IN  IF \A i \in 1..Len(lines) : LineParses(lines[i])
             THEN [i \in 1..Len(lines) |-> LinePair(lines[i])]
             ELSE <<>>

-----------------------------------------------------------------------------
(* calculate_distance *)

RECURSIVE Pow10(_)
Pow10(k) == IF k = 0 THEN 1 ELSE 10 * Pow10(k - 1)

\* 3.28084 * 10^(r/20) to seven decimals, r = 0..19: the conversion factor
\* times the fractional power of ten, for exponents with denominator
\* 10 * PATH_LOSS_EXPONENT = 20
FeetAtStep ==
    <<32808400, 36811630, 41303328, 46343097, 51997810, 58342502, 65461364,
      73448859, 82410975, 92466635, 103749270, 116408596, 130612593,
      146549740, 164431512, 184495191, 207007009, 232265685, 260606385,
      292405173>>

\* faulty variant: zero is normalized too (>= in place of >)
NormalizeFromZero(rssi) == IF rssi >= 0 THEN rssi - NormalizeOffset ELSE rssi

\* rssi = rssi - 100 when rssi > 0
Normalize(rssi) == IF rssi > 0 THEN rssi - NormalizeOffset ELSE rssi

\* round(10 ** ((REFERENCE_RSSI - rssi) / (10 * PATH_LOSS_EXPONENT)) * 3.28084, 2)
\* in hundredths of a foot, for an rssi that is already normalized.
\* 10^(n/20) = 10^q * 10^(r/20) with n = 20 q + r; below q = -3 the result
\* rounds to 0.00.  The power raises no arithmetic error for the signals
\* modelled, so the except clause is not entered.
PathLossFeet(rssi) ==
    LET n == REFERENCE_RSSI - rssi
        d == 10 * PATH_LOSS_EXPONENT
        q == n \div d
        r == n % d
    IN  IF q < -3 THEN 0
        ELSE IF q > 5 THEN FeetAtStep[r + 1] * Pow10(q - 5)
        ELSE (2 * FeetAtStep[r + 1] + Pow10(5 - q)) \div (2 * Pow10(5 - q))

calculate_distance(rssi) == PathLossFeet(Normalize(rssi))

-----------------------------------------------------------------------------
(* Sample scan-utility outputs *)

\* Lines the utility is made to print, each with what it means: a
\* well-formed line names its (ssid, signal) pair.
SampleLines ==
    { [text |-> <<"H", ":", "-", "8", "0">>, good |-> TRUE,  pair |-> <<<<"H">>, -80>>],
      [text |-> <<"G", ":", "-", "8", "5">>, good |-> TRUE,  pair |-> <<<<"G">>, -85>>],
      [text |-> <<"G", ":", "1", "5">>,      good |-> TRUE,  pair |-> <<<<"G">>, 15>>],
      [text |-> <<":", "-", "6", "0">>,      good |-> TRUE,  pair |-> <<<<>>, -60>>],
      [text |-> <<"H">>,                     good |-> FALSE, pair |-> <<>>],
      [text |-> <<"H", ":", "G", ":", "3">>, good |-> FALSE, pair |-> <<>>],
      [text |-> <<"G", ":", "-">>,           good |-> FALSE, pair |-> <<>>] }

\* the lines the application's scans and debug requests see
ScanLines == {l \in SampleLines : l.text \in {<<"H", ":", "-", "8", "0">>,
                                                <<"G", ":", "-", "8", "5">>,
                                                <<"G", ":", "1", "5">>,
                                                <<"H">>}}

LineSeqs(lines) == UNION { [1..n -> lines] : n \in 0..MaxLines }

\* the utility prints each line followed by a newline
RECURSIVE Printed(_)
Printed(ls) ==
    IF ls = <<>> THEN <<>> ELSE ls[1].text \o <<NL>> \o Printed(Tail1(ls))

\* check_output either raises (utility missing, non-zero exit) or returns
\* the printed text
OutcomesOf(lines) ==
    { [ok |-> FALSE, text |-> <<>>, lines |-> <<>>] } \cup
    { [ok |-> TRUE, text |-> Printed(ls), lines |-> ls] : ls \in LineSeqs(lines) }

Outcomes == OutcomesOf(SampleLines)

\* the lists get_wifi_signal can hand to a scan or debug request
ScanLists == { get_wifi_signal(out) : out \in OutcomesOf(ScanLines) }

-----------------------------------------------------------------------------------------------------------------------------------------------------
(* Log store: table wifi_signal *)

\* datetime.now().strftime("%Y-%m-%d %H:%M:%S"): fixed-width fields, most
\* significant first; the model keeps the minute and the second
strftime(c) == <<c \div 60, c % 60>>

\* comparison of two timestamp TEXT values
TextLess(a, b) == a[1] < b[1] \/ (a[1] = b[1] /\ a[2] < b[2])

Range(f) == {f[i] : i \in DOMAIN f}

MaxOf(S) == IF S = {} THEN 0 ELSE CHOOSE m \in S : \A x \in S : x <= m

\* faulty variant: the new id repeats the largest id given out
autoincrement_repeat(st, sq) == MaxOf({sq} \cup {r.id : r \in Range(st)})

\* id INTEGER PRIMARY KEY AUTOINCREMENT: one more than the largest id the
\* table holds or has ever held
autoincrement(st, sq) == MaxOf({sq} \cup {r.id : r \in Range(st)}) + 1

\* faulty variant: INSERT OR REPLACE keyed on the ssid
insert_replacing(st, row) ==
    SelectSeq(st, LAMBDA r : r.ssid # row.ssid) \o <<row>>

\* INSERT INTO wifi_signal (timestamp, ssid, rssi, distance) VALUES (...)
\* followed by commit: the row is appended, no other row is touched
insert_row(st, row) == Append(st, row)

\* the ssid query parameter: absent (None) or a text, possibly empty
NoFilter == [given |-> FALSE, value |-> <<>>]
Filters ==
    {NoFilter} \cup { [given |-> TRUE, value |-> v] : v \in {<<>>, <<"H">>, <<"G">>} }

\* "if filter_ssid:" is false for None and for the empty text
Truthy(f) == f.given /\ f.value # <<>>

\* SELECT *: the columns in the order of the CREATE TABLE statement
RowTuple(r) == <<r.id, r.timestamp, r.ssid, r.rssi, r.distance>>

\* ORDER BY timestamp DESC over a scan in rowid order: rows with equal
\* timestamps keep their rowid order
RECURSIVE OrderByTimestampDesc(_)
OrderByTimestampDesc(rows) ==
    IF rows = <<>> THEN <<>>
    ELSE LET sorted == OrderByTimestampDesc(Front(rows))
             r      == rows[Len(rows)]
             k      == Cardinality({i \in 1..Len(sorted) :
                                       ~TextLess(sorted[i].timestamp, r.timestamp)})
         IN  SubSeq(sorted, 1, k) \o <<r>> \o SubSeq(sorted, k + 1, Len(sorted))

fetch_logs(st, f) ==
    LET rows   == IF Truthy(f)
                  THEN SelectSeq(st, LAMBDA r : r.ssid = f.value)
                  ELSE st
        sorted == OrderByTimestampDesc(rows)
    IN  [i \in 1..Len(sorted) |-> RowTuple(sorted[i])]

-----------------------------------------------------------------------------
(* Export: wifi_signal_logs.csv *)

Header == <<"ID", "Timestamp", "SSID", "RSSI (dBm)", "Distance (m)">>

TwoDigits(n) == ToString(n \div 10) \o ToString(n % 10)

\* str(float) of a value rounded to two decimals: 3.28, 184.5, 10.0
FloatText(d) ==
    ToString(d \div 100) \o "." \o
    (IF d % 10 = 0 THEN ToString((d % 100) \div 10) ELSE TwoDigits(d % 100))

\* csv.writer writes str() of every field of the row tuple, in order
CsvLine(t) ==
    <<ToString(t[1]), TwoDigits(t[2][1]) \o ":" \o TwoDigits(t[2][2]),
      t[3], ToString(t[4]), FloatText(t[5])>>

\* faulty variant: the file is opened in append mode
write_csv_append(old, logs) ==
    old \o <<Header>> \o [i \in 1..Len(logs) |-> CsvLine(logs[i])]

\* open(csv_file, "w") truncates; writerow(header); writerows(logs)
write_csv(old, logs) ==
    <<Header>> \o [i \in 1..Len(logs) |-> CsvLine(logs[i])]

export_logs_to_csv(old, st) == write_csv(old, fetch_logs(st, NoFilter))

-----------------------------------------------------------------------------
(* Route helpers *)

\* faulty variant: the filter compares the normalized signal
scan_weak_normalized(rssi) == Normalize(rssi) < WeakThreshold

\* faulty variant: the filter keeps everything down to -90
scan_weak_lenient(rssi) == rssi < WeakThreshold - 10

\* scan: "if rssi < -80: continue"
scan_weak(rssi) == rssi < WeakThreshold

\* faulty variant: debug keeps the weak signals
debug_weak_never(rssi) == FALSE

\* debug: "if rssi < -80: continue"
debug_weak(rssi) == rssi < WeakThreshold

\* faulty variant: an empty scan is reported as a failure
scan_status_nonempty(ws) == IF ws = <<>> THEN "Scan failed" ELSE "Scan complete"

\* scan: return jsonify({"status": "Scan complete"})
scan_status(ws) == "Scan complete"

\* logs: one dict per row tuple
LogDict(t) ==
    [id |-> t[1], timestamp |-> t[2], ssid |-> t[3], rssi |-> t[4], distance |-> t[5]]

\* debug: the loop that builds debug_data
RECURSIVE debug_data(_)
debug_data(ws) ==
    IF ws = <<>> THEN <<>>
    ELSE LET ssid == ws[1][1]
             rssi == ws[1][2]
         IN  IF debug_weak(rssi)
             THEN debug_data(Tail1(ws))
             ELSE <<[SSID |-> ssid, RSSI |-> rssi,
                     Distance |-> calculate_distance(rssi)]>>
                  \o debug_data(Tail1(ws))

-----------------------------------------------------------------------------
(* The application: requests against the store *)

NoOutcome == [ok |-> FALSE, text |-> <<>>, lines |-> <<>>]
NoParse == [done |-> FALSE, list |-> <<>>]
NoPending == [timestamp |-> <<0, 0>>, ssid |-> <<>>, rssi |-> 0, distance |-> 0]

\* the state once setup_database has run and the server accepts requests
AppInit ==
    /\ store = <<>>
    /\ seq = 0
    /\ clock = FirstSecond
    /\ pc = [p \in Requests |-> "idle"]
    /\ wifi_signals = [p \in Requests |-> <<>>]
    /\ idx = [p \in Requests |-> 1]
    /\ pending = [p \in Requests |-> NoPending]
    /\ response = [p \in Requests |-> "none"]
    /\ inserted = [p \in Requests |-> <<>>]
    /\ committed = {}
    /\ lastOp = "none"
    /\ filterArg = NoFilter
    /\ result = <<>>
    /\ source = <<>>
    /\ csv = <<>>

Init ==
    /\ AppInit
    /\ nmcli = NoOutcome
    /\ parsed = NoParse
    /\ rssiArg = 0
    /\ estimated = -1

Running(p) == pc[p] \in {"loop", "insert"}

\* rows the running scans may still insert
Reserved ==
    LET left(p) == IF Running(p) THEN Len(wifi_signals[p]) - idx[p] + 1 ELSE 0
    IN  left(1) + left(2)

\* what a scan step leaves of the last read request
ScanStepMarks ==
    /\ lastOp' = "scan"
    /\ filterArg' = NoFilter
    /\ result' = <<>>
    /\ source' = <<>>
    /\ UNCHANGED pureVars

\* scan: wifi_signals = get_wifi_signal()
ScanStart(p) ==
    /\ pc[p] = "idle"
    /\ \E ws \in ScanLists :
         /\ Len(store) + Reserved + Len(ws) <= MaxStore
         /\ wifi_signals' = [wifi_signals EXCEPT ![p] = ws]
    /\ pc' = [pc EXCEPT ![p] = "loop"]
    /\ idx' = [idx EXCEPT ![p] = 1]
    /\ ScanStepMarks
    /\ UNCHANGED <<store, seq, clock, pending, response, inserted, committed, csv>>

\* scan: one turn of the for loop up to the INSERT: the weak-signal filter,
\* calculate_distance, and log_to_database reading the clock
ScanIter(p) ==
    /\ pc[p] = "loop"
    /\ idx[p] <= Len(wifi_signals[p])
    /\ LET ssid == wifi_signals[p][idx[p]][1]
           rssi == wifi_signals[p][idx[p]][2]
       IN  IF scan_weak(rssi)
           THEN /\ idx' = [idx EXCEPT ![p] = @ + 1]
                /\ UNCHANGED <<pc, pending>>
           ELSE /\ pending' = [pending EXCEPT ![p] =
                                  [timestamp |-> strftime(clock), ssid |-> ssid,
                                   rssi |-> rssi,
                                   distance |-> calculate_distance(rssi)]]
                /\ pc' = [pc EXCEPT ![p] = "insert"]
                /\ UNCHANGED idx
    /\ ScanStepMarks
    /\ UNCHANGED <<store, seq, clock, wifi_signals, response, inserted, committed, csv>>

\* log_to_database: cursor.execute(INSERT ...) and conn.commit(), one
\* SQLite write transaction
ScanInsert(p) ==
    /\ pc[p] = "insert"
    /\ LET id  == autoincrement(store, seq)
           row == [id |-> id, timestamp |-> pending[p].timestamp,
                   ssid |-> pending[p].ssid, rssi |-> pending[p].rssi,
                   distance |-> pending[p].distance]
       IN  /\ store' = insert_row(store, row)
           /\ seq' = id
           /\ inserted' = [inserted EXCEPT ![p] = Append(@, row)]
           /\ committed' = committed \cup {row}
    /\ pending' = [pending EXCEPT ![p] = NoPending]
    /\ idx' = [idx EXCEPT ![p] = @ + 1]
    /\ pc' = [pc EXCEPT ![p] = "loop"]
    /\ ScanStepMarks
    /\ UNCHANGED <<clock, wifi_signals, response, csv>>

\* scan: the loop is over (or was skipped: "if wifi_signals:")
ScanRespond(p) ==
    /\ pc[p] = "loop"
    /\ idx[p] > Len(wifi_signals[p])
    /\ response' = [response EXCEPT ![p] = scan_status(wifi_signals[p])]
    /\ pc' = [pc EXCEPT ![p] = "done"]
    /\ ScanStepMarks
    /\ UNCHANGED <<store, seq, clock, wifi_signals, idx, pending, inserted, committed, csv>>

\* the response has been sent; the worker takes the next scan request
ScanReset(p) ==
    /\ pc[p] = "done"
    /\ pc' = [pc EXCEPT ![p] = "idle"]
    /\ wifi_signals' = [wifi_signals EXCEPT ![p] = <<>>]
    /\ idx' = [idx EXCEPT ![p] = 1]
    /\ response' = [response EXCEPT ![p] = "none"]
    /\ inserted' = [inserted EXCEPT ![p] = <<>>]
    /\ ScanStepMarks
    /\ UNCHANGED <<store, seq, clock, pending, committed, csv>>

\* index: fetch_logs(filter_ssid) handed to the template
View(f) ==
    /\ lastOp' = "view"
    /\ filterArg' = f
    /\ result' = fetch_logs(store, f)
    /\ source' = <<>>
    /\ UNCHANGED <<store, seq, clock, pc, wifi_signals, idx, pending, response,
                   inserted, committed, csv, pureVars>>

\* logs: fetch_logs(filter_ssid) as a list of dicts
Logs(f) ==
    /\ lastOp' = "logs"
    /\ filterArg' = f
    /\ result' = LET rows == fetch_logs(store, f)
                 IN  [i \in 1..Len(rows) |-> LogDict(rows[i])]
    /\ source' = <<>>
    /\ UNCHANGED <<store, seq, clock, pc, wifi_signals, idx, pending, response,
                   inserted, committed, csv, pureVars>>

\* export: export_logs_to_csv() and send_file
Export ==
    /\ lastOp' = "export"
    /\ filterArg' = NoFilter
    /\ result' = <<>>
    /\ source' = <<>>
    /\ csv' = export_logs_to_csv(csv, store)
    /\ UNCHANGED <<store, seq, clock, pc, wifi_signals, idx, pending, response,
                   inserted, committed, pureVars>>

\* debug: a live scan, filtered and estimated, returned without logging
Debug ==
    /\ \E ws \in ScanLists :
         /\ source' = ws
         /\ result' = debug_data(ws)
    /\ lastOp' = "debug"
    /\ filterArg' = NoFilter
    /\ UNCHANGED <<store, seq, clock, pc, wifi_signals, idx, pending, response,
                   inserted, committed, csv, pureVars>>

\* a second passes on the wall clock
Tick ==
    /\ clock < LastSecond
    /\ clock' = clock + 1
    /\ UNCHANGED <<store, seq, pc, wifi_signals, idx, pending, response, inserted,
                   committed, lastOp, filterArg, result, source, csv, pureVars>>

\* Two scan requests served at the same time (the development server
\* handles each request in its own thread), against one table.
Next ==
    \/ \E p \in Requests : ScanStart(p)
    \/ \E p \in Requests : ScanIter(p)
    \/ \E p \in Requests : ScanInsert(p)
    \/ \E p \in Requests : ScanRespond(p)
    \/ \E p \in Requests : ScanReset(p)
    \/ Tick

Spec == Init /\ [][Next]_vars

\* The routes that read the table (view, logs, export) served between the
\* steps of one scan request.
NextRead ==
    \/ ScanStart(1)
    \/ ScanIter(1)
    \/ ScanInsert(1)
    \/ ScanRespond(1)
    \/ ScanReset(1)
    \/ \E f \in Filters : View(f)
    \/ \E f \in Filters : Logs(f)
    \/ Export
    \/ Tick

SpecRead == Init /\ [][NextRead]_vars

\* Debug requests served between the steps of one scan request.
NextDebug ==
    \/ ScanStart(1)
    \/ ScanIter(1)
    \/ ScanInsert(1)
    \/ ScanRespond(1)
    \/ ScanReset(1)
    \/ Debug

SpecDebug == Init /\ [][NextDebug]_vars

-----------------------------------------------------------------------------
(* Parser check: get_wifi_signal on every sample outcome *)

InitParse ==
    /\ nmcli \in Outcomes
    /\ parsed = NoParse
    /\ AppInit
    /\ rssiArg = 0 /\ estimated = -1

Parse ==
    /\ ~parsed.done
    /\ parsed' = [done |-> TRUE, list |-> get_wifi_signal(nmcli)]
    /\ UNCHANGED <<appVars, nmcli, rssiArg, estimated>>

NextParse == Parse

SpecParse == InitParse /\ [][NextParse]_vars

-----------------------------------------------------------------------------
(* Estimator check: calculate_distance on every rssi in -MaxRssi .. MaxRssi *)

InitEstimate ==
    /\ rssiArg \in (0 - MaxRssi)..MaxRssi
    /\ estimated = -1
    /\ nmcli = NoOutcome
    /\ parsed = NoParse
    /\ AppInit

Estimate ==
    /\ estimated = -1
    /\ estimated' = calculate_distance(rssiArg)
    /\ UNCHANGED <<appVars, nmcli, parsed, rssiArg>>

NextEstimate == Estimate

SpecEstimate == InitEstimate /\ [][NextEstimate]_vars

-----------------------------------------------------------------------------
(* Properties *)

\* the pairs of a source list with signal_strength >= -80, in source order
Kept(ws) == SelectSeq(ws, LAMBDA pr : pr[2] >= -80)

\* the (network_name, signal_strength, distance) of each row of a list
Persisted(rows) ==
    [i \in 1..Len(rows) |-> <<rows[i].ssid, rows[i].rssi, rows[i].distance>>]

\* what a scan over ws is to persist: each kept pair with its estimate
WouldPersist(ws) ==
    [i \in 1..Len(Kept(ws)) |->
        <<Kept(ws)[i][1], Kept(ws)[i][2], calculate_distance(Kept(ws)[i][2])>>]

Done(p) == pc[p] = "done"

\* C1: the table never holds a Reading whose signal_strength is below -80,
\* whatever the scans (one after the other or interleaved) were given.
C1_NoWeakReadingStored ==
    \A i \in 1..Len(store) : store[i].rssi >= -80

\* C1 witness: a finished scan was given a pair below -80 and stored another
C1_Witness ==
    \E p \in Requests :
        /\ Done(p)
        /\ \E i \in 1..Len(wifi_signals[p]) : wifi_signals[p][i][2] < -80
        /\ inserted[p] # <<>>

\* C2: a view or logs response holds exactly the stored Readings whose
\* network_name equals the supplied filter (all of them when no filter is
\* supplied), each once, in descending timestamp order.
ReadingOf(x) ==
    IF lastOp = "logs" THEN x
    ELSE [id |-> x[1], timestamp |-> x[2], ssid |-> x[3], rssi |-> x[4],
          distance |-> x[5]]

C2_QueryExactFilter ==
    lastOp \in {"view", "logs"} =>
        LET want == {r \in Range(store) : filterArg.given => r.ssid = filterArg.value}
            got  == [i \in 1..Len(result) |-> ReadingOf(result[i])]
        IN  /\ Range(got) = want
            /\ Len(got) = Cardinality(want)
            /\ \A i, j \in 1..Len(got) :
                  i < j => ~TextLess(got[i].timestamp, got[j].timestamp)

C5_ExportRows ==
    lastOp = "export" =>
        LET q == fetch_logs(store, NoFilter)
        IN  /\ Len(csv) = Len(store) + 1
            /\ csv[1] = <<"ID", "Timestamp", "SSID", "RSSI (dBm)", "Distance (m)">>
            /\ \A i \in 1..Len(store) :
                  /\ csv[i + 1][1] = ToString(q[i][1])
                  /\ \E r \in Range(store) :
                        csv[i + 1] =
                            <<ToString(r.id),
                              TwoDigits(r.timestamp[1]) \o ":" \o TwoDigits(r.timestamp[2]),
                              r.ssid, ToString(r.rssi), FloatText(r.distance)>>

\* C5 witness: an export of a table with two rows of different timestamps
C5_Witness ==
    /\ lastOp = "export"
    /\ \E i, j \in 1..Len(store) : store[i].timestamp # store[j].timestamp

\* C6: a debug request leaves the table as it was and returns the
\* (network_name, signal_strength, distance) of the pairs at or above -80,
\* in source order: what a scan persists for the same source list.
C6_DebugIsDryRun ==
    [][ /\ lastOp' = "debug" =>
            /\ store' = store
            /\ seq' = seq
            /\ [i \in 1..Len(result') |->
                   <<result'[i].SSID, result'[i].RSSI, result'[i].Distance>>]
               = WouldPersist(source')
        /\ Done(1)' => Persisted(inserted'[1]) = WouldPersist(wifi_signals'[1])
      ]_vars

\* C6 witness: a debug response that dropped a weak pair and kept another,
\* with rows in the table
C6_Witness ==
    /\ lastOp = "debug"
    /\ result # <<>>
    /\ Len(result) < Len(source)
    /\ store # <<>>

\* C7: ids grow strictly along the insertion order (so they are pairwise
\* distinct), and every row a scan has inserted is in the table, also when
\* the inserts of two scans interleave.
C7_IdsIncreaseNoneLost ==
    /\ \A i, j \in 1..Len(store) : i < j => store[i].id < store[j].id
    /\ \A p \in Requests : \A k \in 1..Len(inserted[p]) :
          \E i \in 1..Len(store) : store[i] = inserted[p][k]
    /\ \A r \in committed : \E i \in 1..Len(store) : store[i] = r
    /\ Cardinality(committed) = Len(store)

\* C7 witness: an insert of one scan lies between two inserts of the other
C7_Witness ==
    \E i, j, k \in 1..Len(store) :
        /\ i < j /\ j < k
        /\ \E a \in 1..Len(inserted[1]) : inserted[1][a] = store[i]
        /\ \E b \in 1..Len(inserted[2]) : inserted[2][b] = store[j]
        /\ \E c \in 1..Len(inserted[1]) : inserted[1][c] = store[k]

C9_ParseAllOrNothing ==
    parsed.done =>
        parsed.list =
            IF nmcli.ok /\ \A i \in 1..Len(nmcli.lines) : nmcli.lines[i].good
            THEN [i \in 1..Len(nmcli.lines) |-> nmcli.lines[i].pair]
            ELSE <<>>

\* C9 witness: a well-formed line followed by a malformed one gave nothing
C9_Witness ==
    /\ parsed.done
    /\ nmcli.ok
    /\ Len(nmcli.lines) = 2
    /\ nmcli.lines[1].good
    /\ ~nmcli.lines[2].good
    /\ parsed.list = <<>>

\* C10: the weak-signal filter sees the signal as received: a finished scan
\* has persisted one Reading per source pair at or above -80 (positive raw
\* values included), holding the raw signal and the estimate of the raw
\* signal; so every stored Reading has distance = estimate(signal_strength).
C10_RawSignalFiltered ==
    /\ \A i \in 1..Len(store) :
          store[i].distance = calculate_distance(store[i].rssi)
    /\ \A p \in Requests :
          Done(p) => Persisted(inserted[p]) = WouldPersist(wifi_signals[p])

\* C10 witness: a finished scan stored a positive raw signal whose
\* normalized value is below -80
C10_Witness ==
    \E p \in Requests :
        /\ Done(p)
        /\ \E k \in 1..Len(inserted[p]) :
              /\ inserted[p][k].rssi > 0
              /\ inserted[p][k].rssi - 100 < -80

====
